---- MODULE Spec2Model ----
(***************************************************************************)
(* Work-related injury analysis: the Cleaner (scripts/02_data_cleaning.py) *)
(* and the KPI stage (scripts/04_kpi_development.py) as state machines.    *)
(*                                                                         *)
(* Both scripts run top to bottom over one in-memory table; pc is the      *)
(* position in the script and each action is one numbered step of it.      *)
(* A step that looks up a column the table lacks raises KeyError and the   *)
(* script stops there ("failed", "kpi_failed"), as it does at any other    *)
(* exception.                                                              *)
(*                                                                         *)
(* Numbers.  Every numeric cell of the Cleaner's table is held in fixed    *)
(* point, as an integer number of hundredths (Scale = 100): the inputs are *)
(* whole counts, and the 99th percentile of whole numbers, interpolated    *)
(* linearly as pandas does, is a whole number of hundredths.  Ratios       *)
(* (hours per employee, TRIR, ...) are exact rationals [n, d] in lowest    *)
(* terms.  Binary floating-point rounding is not modelled, and numeric     *)
(* cells are never missing: a missing hours, injuries or day count fails   *)
(* the test of step 3, and a missing employee count gives 0 hours per      *)
(* employee, so such rows leave the table where a negative one does.       *)
(***************************************************************************)
EXTENDS Integers, Sequences, FiniteSets, TLC

VARIABLES
    pc,                \* position in the running script
    columns,           \* the columns of the table the running script loaded
    df_raw,            \* 02: df, the table as loaded (never changed)
    df_clean,          \* 02: the table being cleaned (sequence of rows)
    p99,               \* 02: per column, the threshold of the winsorization loop
    negative_removed,  \* 02: rows removed by step 3
    total_impossible,  \* 02: the total printed by "Removing N impossible records"
    outliers_removed,  \* 02: rows removed by step 4, as logged
    initial_outlier_count, \* 02: len(df_clean) before the implausibility pass
    empty_companies,   \* 02: rows with an empty company name, as counted in step 7
    output_file,       \* 02: ita_osha_enhanced.csv once written (<<>> before)
    sample_file,       \* 02: ita_osha_sample_10k.csv once written
    df,                \* 04: the KPI table
    trir_removed,      \* 04: rows removed by the TRIR filter
    df_with_injuries,  \* 04: rows of df with TRIR > 0
    industry_kpis,     \* 04: sector name -> benchmark record
    size_kpis,         \* 04: size -> summary record
    yearly_trends,     \* 04: <<sector name, year>> -> mean TRIR
    sector_trends,     \* 04: sector name -> trend slope and direction
    kpi_file,          \* 04: ita_osha_with_kpis.csv once written
    column,            \* one numeric column, for the clipping step on its own
    previous,          \* column as it was before the last run of the clipping step
    passes             \* how many times the clipping step has run on column

vars == <<pc, columns, df_raw, df_clean, p99, negative_removed, total_impossible,
          outliers_removed, initial_outlier_count, empty_companies, output_file, sample_file,
          df, df_with_injuries, industry_kpis, size_kpis, yearly_trends, sector_trends,
          kpi_file, trir_removed, column, previous, passes>>

cleanVars == <<df_raw, df_clean, p99, negative_removed, total_impossible, outliers_removed,
               initial_outlier_count, empty_companies, output_file, sample_file>>

kpiVars == <<df, df_with_injuries, industry_kpis, size_kpis, yearly_trends, sector_trends,
             kpi_file, trir_removed>>

colVars == <<column, previous, passes>>

-----------------------------------------------------------------------------
(* Bounds of the model *)

MaxRows == 2

MaxKpiRows == 2

MaxColLen == 3

MaxColVal == 3

-----------------------------------------------------------------------------
(* Arithmetic *)

Scale == 100

Abs(x) == IF x < 0 THEN -x ELSE x

Min(a, b) == IF a <= b THEN a ELSE b

RECURSIVE Gcd(_, _)
Gcd(a, b) == IF b = 0 THEN a ELSE Gcd(b, a % b)

\* The rational n/d in lowest terms with a positive denominator (d # 0).
Rat(n, d) ==
    LET g == Gcd(Abs(n), Abs(d))
        s == IF d < 0 THEN -1 ELSE 1
    IN  [n |-> s * (n \div g), d |-> s * (d \div g)]

Zero == [n |-> 0, d |-> 1]

\* r * k, reduced before multiplying.
RatTimes(r, k) ==
    LET g == Gcd(Abs(k), r.d)
    IN  Rat(r.n * (k \div g), r.d \div g)

RatAdd(r, s) ==
    LET g == Gcd(r.d, s.d)
    IN  Rat(r.n * (s.d \div g) + s.n * (r.d \div g), (r.d \div g) * s.d)

RatLeq(r, s) == r.n * s.d <= s.n * r.d

RatLess(r, s) == r.n * s.d < s.n * r.d

Range(s) == {s[i] : i \in DOMAIN s}

\* The elements of a finite set, in some order.
RECURSIVE SetToSeq(_)
SetToSeq(S) ==
    IF S = {} THEN <<>>
    ELSE LET x == CHOOSE y \in S : TRUE IN <<x>> \o SetToSeq(S \ {x})

-----------------------------------------------------------------------------
(* pandas / numpy primitives used by both scripts *)

\* A missing text cell, and the text astype(str) makes of it.
NaN == <<"NaN">>

AsStr(x) == IF x = NaN THEN <<"n", "a", "n">> ELSE x

\* str.strip(): leading and trailing blanks removed.
RECURSIVE LStrip(_)
LStrip(s) == IF s # <<>> /\ Head(s) = " " THEN LStrip(Tail(s)) ELSE s

RECURSIVE RStrip(_)
RStrip(s) ==
    IF s # <<>> /\ s[Len(s)] = " " THEN RStrip(SubSeq(s, 1, Len(s) - 1)) ELSE s

Strip(s) == RStrip(LStrip(s))

\* str[:2]
Prefix2(s) == SubSeq(s, 1, Min(2, Len(s)))

\* The values of column c, in row order.
ColumnOf(t, c) == [i \in DOMAIN t |-> t[i][c]]

Q == 99

\* Series.quantile(0.99): linear interpolation between the two order statistics
\* around position 0.99 * (n - 1); <<>> (NaN) for an empty column.
Quantile99(vals) ==
    LET n   == Len(vals)
        s   == SortSeq(vals, LAMBDA a, b : a < b)
        pos == Q * (n - 1)
        lo  == pos \div Scale
        fr  == pos % Scale
        a   == s[lo + 1]
        b   == s[Min(lo + 2, n)]
    IN  IF n = 0 THEN <<>> ELSE <<a + (fr * (b - a)) \div Scale>>

\* clip(lower=q) written for clip(upper=q).
ClipLower(x, q) == IF x < q THEN q ELSE x

\* Series.clip(upper=q)
ClipUpper(x, q) == IF x > q THEN q ELSE x

-----------------------------------------------------------------------------
(* The Cleaner: scripts/02_data_cleaning.py *)

\* A well-formed record: one employee, 2000 hours, one injury.
GoodRow ==
    [index                    |-> 0,
     annual_average_employees |-> 1 * Scale,
     total_hours_worked       |-> 2000 * Scale,
     total_injuries           |-> 1 * Scale,
     total_dafw_days          |-> 0,
     total_djtr_days          |-> 0,
     total_other_cases        |-> 0,
     total_deaths             |-> 0,
     total_dafw_cases         |-> 0,
     total_djtr_cases         |-> 0,
     establishment_type       |-> "1",
     company_name             |-> <<"A">>,
     no_injuries_illnesses    |-> "2",
     naics_code               |-> <<"2", "3", "6", "2", "2", "0">>,
     size                     |-> 2,
     year_filing_for          |-> 2021]

Ehi(e, h, i) ==
    [GoodRow EXCEPT !.annual_average_employees = e * Scale,
                    !.total_hours_worked = h * Scale,
                    !.total_injuries = i * Scale]

\* The rows an input table is drawn from: the plausible and implausible
\* combinations of employees, hours and injuries, and GoodRow with one cell
\* changed (a negative count, day counts, a bad code, a missing cell, ...).
InputRows ==
    {Ehi(1, h, i) : h \in {1000, 1500, 2000, 4000, 5000}, i \in {0, 1, 3}}
    \cup {Ehi(2, h, i) : h \in {3000, 8000}, i \in {0, 4}}
    \cup {Ehi(0, h, i) : h \in {0, 2000}, i \in {0, 1}}
    \cup {[GoodRow EXCEPT ![c] = -1 * Scale] :
            c \in {"annual_average_employees", "total_hours_worked", "total_injuries",
                   "total_dafw_days", "total_djtr_days", "total_other_cases",
                   "total_deaths", "total_dafw_cases", "total_djtr_cases"}}
    \cup {[GoodRow EXCEPT ![c] = 3 * Scale] : c \in {"total_dafw_days", "total_djtr_days"}}
    \cup {[GoodRow EXCEPT !.establishment_type = e] :
            e \in {"2", "Executive and Legislative Offices", ""}}
    \cup {[GoodRow EXCEPT !.company_name = n] :
            n \in {<<>>, <<" ">>, <<" ", "A", " ">>, NaN}}
    \cup {[GoodRow EXCEPT !.no_injuries_illnesses = "NaN"]}
    \cup {[GoodRow EXCEPT !.naics_code = k] :
            k \in {<<"9", "2", "1", "1", "1", "0">>, <<"9", "9", "9", "9", "9", "9">>,
                   <<"2">>, NaN}}
    \cup {[Ehi(1, 2000, 0) EXCEPT !.size = 21]}

\* read_csv: the rows in file order, labelled 0 .. n-1.
ReadCsv(rows) == [i \in DOMAIN rows |-> [rows[i] EXCEPT !.index = i - 1]]

InputTables == UNION {[1..n -> InputRows] : n \in 0..MaxRows}

text_columns == <<"company_name", "establishment_name", "street_address", "city">>

\* df_clean.columns after line 15.  Of establishment_name, street_address, city
\* and state only the presence is kept: no row of the model holds their cells.
raw_columns ==
    {"annual_average_employees", "total_hours_worked", "total_injuries",
     "total_dafw_days", "total_djtr_days", "total_other_cases", "total_deaths",
     "total_dafw_cases", "total_djtr_cases", "establishment_type",
     "no_injuries_illnesses", "naics_code", "size", "year_filing_for", "state"}
    \cup Range(text_columns)

\* df[c] for a column the table lacks raises KeyError: the script stops where
\* it is, with what it had written.
Has(cols) == cols \subseteq columns

KeyError(at) ==
    /\ pc' = at
    /\ UNCHANGED <<columns, cleanVars, kpiVars, colVars>>

\* The list with total_other_cases left out.
negative_cols_short ==
    <<"total_hours_worked", "total_dafw_days", "total_djtr_days", "total_injuries">>

negative_cols ==
    <<"total_hours_worked", "total_other_cases", "total_dafw_days", "total_djtr_days",
      "total_injuries">>

numeric_cols ==
    <<"annual_average_employees", "total_hours_worked", "total_injuries",
      "total_dafw_days", "total_djtr_days">>

\* Step 2, pd.to_numeric(errors='coerce'): the number a text denotes, <<>> (NaN)
\* for a text that denotes none.
ToNumeric(x) ==
    CASE x = "1" -> <<1>>
      [] x = "2" -> <<2>>
      [] x = "3" -> <<3>>
      [] OTHER   -> <<>>

\* Step 2: drop the sentinel rows, coerce the rest.
FixEstablishmentType ==
    /\ pc = "fix_type"
    /\ IF Has({"establishment_type"})
       THEN /\ df_clean' =
                 LET kept == SelectSeq(df_clean, LAMBDA r :
                                r.establishment_type # "Executive and Legislative Offices")
                 IN  [i \in DOMAIN kept |->
                        [kept[i] EXCEPT !.establishment_type = ToNumeric(@)]]
            /\ pc' = "negatives"
            /\ UNCHANGED <<p99, negative_removed, total_impossible, outliers_removed,
                           initial_outlier_count, output_file>>
            /\ UNCHANGED <<columns, df_raw, empty_companies, sample_file, kpiVars, colVars>>
       ELSE KeyError("failed")

\* Step 3: for col in negative_cols: df_clean = df_clean[df_clean[col] >= 0]
RECURSIVE DropNegative(_, _)
DropNegative(t, cols) ==
    IF cols = <<>> THEN t
    ELSE DropNegative(SelectSeq(t, LAMBDA r : r[Head(cols)] >= 0), Tail(cols))

RemoveNegatives ==
    /\ pc = "negatives"
    /\ IF Has(Range(negative_cols))
       THEN /\ df_clean' = DropNegative(df_clean, negative_cols)
            /\ negative_removed' = Len(df_clean) - Len(df_clean')
            /\ pc' = "impossible"
            /\ UNCHANGED <<p99, total_impossible, outliers_removed, initial_outlier_count,
                           output_file>>
            /\ UNCHANGED <<columns, df_raw, empty_companies, sample_file, kpiVars, colVars>>
       ELSE KeyError("failed")

\* The else value of np.where written as 1500: a record without employees
\* counts as full time.
hours_per_employee_FullTime(r) ==
    IF r.annual_average_employees > 0
    THEN Rat(r.total_hours_worked, r.annual_average_employees)
    ELSE [n |-> 1500, d |-> 1]

\* Lines 57-61: hours per employee, 0 where there are no employees.
hours_per_employee(r) ==
    IF r.annual_average_employees > 0
    THEN Rat(r.total_hours_worked, r.annual_average_employees)
    ELSE Zero

\* total_injuries / total_hours_worked > 0.1 in floating point: x/0 is +inf for
\* x > 0, -inf for x < 0 and NaN for x = 0, and NaN compares False.
InjuryDensityAbove10Pct(r) ==
    LET i == r.total_injuries
        h == r.total_hours_worked
    IN  CASE h > 0 -> 10 * i > h
          [] h = 0 -> i > 0
          [] OTHER -> 10 * i < h

pattern_names ==
    <<"excessive_hours_per_employee", "zero_employees_with_hours",
      "injuries_exceed_employees", "unrealistically_low_hours",
      "extreme_injury_density", "part_time_seasonal_bias">>

\* Lines 63-70: the six predicates, on a row of the table before any removal.
Pattern(name, r) ==
    CASE name = "excessive_hours_per_employee" ->
           RatLess([n |-> 4000, d |-> 1], hours_per_employee(r))
      [] name = "zero_employees_with_hours" ->
           r.annual_average_employees = 0 /\ r.total_hours_worked > 0
      [] name = "injuries_exceed_employees" ->
           r.total_injuries > r.annual_average_employees * 2
      [] name = "unrealistically_low_hours" ->
           r.total_hours_worked < 2000 * Scale /\ r.total_injuries > 0
      [] name = "extreme_injury_density" ->
           InjuryDensityAbove10Pct(r)
      [] name = "part_time_seasonal_bias" ->
           RatLess(hours_per_employee(r), [n |-> 1500, d |-> 1])

\* impossible_patterns: each mask is a boolean Series over the index labels of
\* the table it was computed on.
impossible_patterns(t) ==
    [k \in DOMAIN pattern_names |->
        [lbl \in {t[i].index : i \in DOMAIN t} |->
            LET r == CHOOSE x \in Range(t) : x.index = lbl
            IN  Pattern(pattern_names[k], r)]]

MaskSum(mask) == Cardinality({lbl \in DOMAIN mask : mask[lbl]})

RECURSIVE SumOfMasks(_)
SumOfMasks(masks) ==
    IF masks = <<>> THEN 0 ELSE MaskSum(Head(masks)) + SumOfMasks(Tail(masks))

\* The removal taken out of its loop: only the mask the variable pattern_mask
\* was left holding, the last one, is applied.
DropMasked_LastOnly(t, masks) ==
    IF masks = <<>> THEN t
    ELSE SelectSeq(t, LAMBDA r : ~masks[Len(masks)][r.index])

\* The masks aligned with the remaining rows by position: the k-th entry of a
\* mask is taken for the k-th remaining row.
RECURSIVE DropMasked_ByPosition(_, _)
DropMasked_ByPosition(t, masks) ==
    IF masks = <<>> THEN t
    ELSE LET m    == Head(masks)
             at   == [k \in DOMAIN t |->
                        m[CHOOSE lbl \in DOMAIN m :
                            Cardinality({l \in DOMAIN m : l < lbl}) = k - 1]]
             kept == {i \in DOMAIN t : ~at[i]}
             rest == [j \in 1..Cardinality(kept) |->
                        t[CHOOSE i \in kept : Cardinality({x \in kept : x < i}) = j - 1]]
         IN  DropMasked_ByPosition(rest, Tail(masks))

\* Lines 80-81: df_clean = df_clean[~pattern_mask], mask after mask; pandas
\* aligns each mask with the remaining rows by index label.
RECURSIVE DropMasked(_, _)
DropMasked(t, masks) ==
    IF masks = <<>> THEN t
    ELSE DropMasked(SelectSeq(t, LAMBDA r : ~Head(masks)[r.index]), Tail(masks))

\* Step 4, first half (lines 47-81): the implausibility pass.
RemoveImpossible ==
    /\ pc = "impossible"
    /\ IF Has(Range(numeric_cols))
       THEN /\ initial_outlier_count' = Len(df_clean)
            /\ LET masks == impossible_patterns(df_clean)
               IN  /\ total_impossible' = SumOfMasks(masks)
                   /\ df_clean' = DropMasked(df_clean, masks)
            /\ pc' = "winsorize"
            /\ UNCHANGED <<p99, negative_removed, outliers_removed, output_file>>
            /\ UNCHANGED <<columns, df_raw, empty_companies, sample_file, kpiVars, colVars>>
       ELSE KeyError("failed")

\* df_clean[col] = p99 written for the clip: every value becomes the threshold.
SetToThreshold(vals) ==
    LET q == Quantile99(vals)
    IN  IF q = <<>> THEN vals ELSE [i \in DOMAIN vals |-> q[1]]

\* Lines 86-89 on the values of one column: the threshold of the column as it
\* stands, and the values clipped at it when some value exceeds it.
WinsorizeValues(vals) ==
    LET q == Quantile99(vals)
    IN  IF q = <<>> \/ \A i \in DOMAIN vals : vals[i] <= q[1]
        THEN vals
        ELSE [i \in DOMAIN vals |-> ClipUpper(vals[i], q[1])]

ClipColumn(t, c) ==
    LET clipped == WinsorizeValues(ColumnOf(t, c))
    IN  [i \in DOMAIN t |-> [t[i] EXCEPT ![c] = clipped[i]]]

RECURSIVE ClipColumns(_, _)
ClipColumns(t, cols) ==
    IF cols = <<>> THEN t ELSE ClipColumns(ClipColumn(t, Head(cols)), Tail(cols))

\* Step 4, second half (lines 83-94): winsorization of numeric_cols.
Winsorize ==
    /\ pc = "winsorize"
    /\ IF Has(Range(numeric_cols))
       THEN /\ p99' = [c \in Range(numeric_cols) |-> Quantile99(ColumnOf(df_clean, c))]
            /\ df_clean' = ClipColumns(df_clean, numeric_cols)
            /\ outliers_removed' = initial_outlier_count - Len(df_clean')
            /\ pc' = "text"
            /\ UNCHANGED <<negative_removed, total_impossible, initial_outlier_count,
                           output_file>>
            /\ UNCHANGED <<columns, df_raw, empty_companies, sample_file, kpiVars, colVars>>
       ELSE KeyError("failed")

\* Steps 5 and 6 (lines 96-107): astype(str).str.strip() on the text columns.
CleanText ==
    /\ pc = "text"
    /\ IF Has(Range(text_columns) \cup {"state"})
       THEN /\ df_clean' = [i \in DOMAIN df_clean |->
                              [df_clean[i] EXCEPT !.company_name = Strip(AsStr(@))]]
            /\ pc' = "missing"
            /\ UNCHANGED <<p99, negative_removed, total_impossible, outliers_removed,
                           initial_outlier_count, output_file>>
            /\ UNCHANGED <<columns, df_raw, empty_companies, sample_file, kpiVars, colVars>>
       ELSE KeyError("failed")

\* Line 115: the number of dropped rows that step 7 appends to cleaning_log.
dropped_logged == empty_companies + 2

\* Step 7 (lines 109-115): dropna on no_injuries_illnesses, fillna(1.0) on
\* establishment_type, drop the empty company names.
HandleMissing ==
    /\ pc = "missing"
    /\ IF Has({"no_injuries_illnesses", "establishment_type", "company_name"})
       THEN /\ df_clean' =
                 LET present == SelectSeq(df_clean, LAMBDA r : r.no_injuries_illnesses # "NaN")
                     filled  == [i \in DOMAIN present |->
                                   [present[i] EXCEPT !.establishment_type =
                                       IF @ = <<>> THEN <<1>> ELSE @]]
                 IN  SelectSeq(filled, LAMBDA r : r.company_name # <<>>)
            /\ empty_companies' =
                 Len(SelectSeq(df_clean, LAMBDA r :
                        r.no_injuries_illnesses # "NaN" /\ r.company_name = <<>>))
            /\ pc' = "naics"
            /\ UNCHANGED <<p99, negative_removed, total_impossible, outliers_removed,
                           initial_outlier_count, output_file>>
            /\ UNCHANGED <<columns, df_raw, sample_file, kpiVars, colVars>>
       ELSE KeyError("failed")

Code(a, b) == <<a, b>>

valid_naics_sectors ==
    {Code("1", "1"), Code("2", "1"), Code("2", "2"), Code("2", "3"), Code("3", "1"),
     Code("3", "2"), Code("3", "3"), Code("4", "2"), Code("4", "4"), Code("4", "5"),
     Code("4", "8"), Code("4", "9"), Code("5", "1"), Code("5", "2"), Code("5", "3"),
     Code("5", "4"), Code("5", "5"), Code("5", "6"), Code("6", "1"), Code("6", "2"),
     Code("7", "1"), Code("7", "2"), Code("8", "1"), Code("9", "2")}

\* Step 8 (lines 117-126): the sector is the first two characters of the code.
CleanNaics ==
    /\ pc = "naics"
    /\ IF Has({"naics_code"})
       THEN /\ df_clean' =
                 LET t == [i \in DOMAIN df_clean |->
                             [k \in DOMAIN df_clean[i] \cup {"naics_sector"} |->
                                IF k = "naics_sector"
                                THEN Prefix2(AsStr(df_clean[i].naics_code))
                                ELSE df_clean[i][k]]]
                 IN  SelectSeq(t, LAMBDA r : r.naics_sector \in valid_naics_sectors)
            /\ pc' = "derive"
            /\ UNCHANGED <<p99, negative_removed, total_impossible, outliers_removed,
                           initial_outlier_count, output_file>>
            /\ UNCHANGED <<columns, df_raw, empty_companies, sample_file, kpiVars, colVars>>
       ELSE KeyError("failed")

naics_entries ==
    <<<<Code("1", "1"), "Agriculture, Forestry, Fishing">>,
      <<Code("2", "1"), "Mining, Quarrying, Oil/Gas">>,
      <<Code("2", "2"), "Utilities">>,
      <<Code("2", "3"), "Construction">>,
      <<Code("3", "1"), "Manufacturing">>,
      <<Code("3", "2"), "Manufacturing">>,
      <<Code("3", "3"), "Manufacturing">>,
      <<Code("4", "2"), "Wholesale Trade">>,
      <<Code("4", "4"), "Retail Trade">>,
      <<Code("4", "5"), "Retail Trade">>,
      <<Code("4", "8"), "Transportation & Warehousing">>,
      <<Code("4", "9"), "Transportation & Warehousing">>,
      <<Code("5", "1"), "Information">>,
      <<Code("5", "2"), "Finance & Insurance">>,
      <<Code("5", "3"), "Real Estate & Rental">>,
      <<Code("5", "4"), "Professional Services">>,
      <<Code("5", "5"), "Management of Companies">>,
      <<Code("5", "6"), "Administrative Support">>,
      <<Code("6", "1"), "Educational Services">>,
      <<Code("6", "2"), "Health Care & Social Assistance">>,
      <<Code("7", "1"), "Arts, Entertainment, Recreation">>,
      <<Code("7", "2"), "Accommodation & Food Services">>,
      <<Code("8", "1"), "Other Services">>,
      <<Code("9", "2"), "Public Administration">>>>

\* A dict from a sequence of <<key, value>> entries.
DictOf(entries) ==
    [k \in {entries[i][1] : i \in DOMAIN entries} |->
        (CHOOSE e \in Range(entries) : e[1] = k)[2]]

\* The lookup without its last entry.
naics_mapping_short == DictOf(SubSeq(naics_entries, 1, Len(naics_entries) - 1))

naics_mapping == DictOf(naics_entries)

\* Series.map(dict): the entry of the key, NaN for a key the dict lacks.
MapName(mapping, key) == IF key \in DOMAIN mapping THEN mapping[key] ELSE "NaN"

\* The division guarded by den != 0 only in name: a zero denominator is divided
\* by, and the cell holds num/0 (inf or NaN).
UnguardedRate(num, den, factor) ==
    IF den # 0 THEN RatTimes(Rat(num, den), factor) ELSE [n |-> num, d |-> 0]

\* The guarded division np.where(den > 0, num / den * factor, 0).
GuardedRate(num, den, factor) ==
    IF den > 0 THEN RatTimes(Rat(num, den), factor) ELSE Zero

\* Step 9 (lines 128-156): the derived columns.
DerivedColumns(r) ==
    [k \in DOMAIN r \cup {"injury_rate_per_100_employees", "trir", "naics_sector_name"} |->
        CASE k = "injury_rate_per_100_employees" ->
               GuardedRate(r.total_injuries, r.annual_average_employees, 100)
          [] k = "trir" ->
               GuardedRate(r.total_injuries, r.total_hours_worked, 200000)
          [] k = "naics_sector_name" ->
               MapName(naics_mapping, r.naics_sector)
          [] OTHER -> r[k]]

DeriveVariables ==
    /\ pc = "derive"
    /\ IF Has({"annual_average_employees", "total_injuries", "total_hours_worked"})
       THEN /\ df_clean' = [i \in DOMAIN df_clean |-> DerivedColumns(df_clean[i])]
            /\ pc' = "save"
            /\ UNCHANGED <<p99, negative_removed, total_impossible, outliers_removed,
                           initial_outlier_count, output_file>>
            /\ UNCHANGED <<columns, df_raw, empty_companies, sample_file, kpiVars, colVars>>
       ELSE KeyError("failed")

SampleSize == 10000

\* DataFrame.sample(k, random_state=42): k of the rows, none twice.  Which rows
\* the seed picks is not modelled: any k of them.
Sample(t, k) ==
    {[i \in 1..k |-> t[f[i]]] :
        f \in {g \in [1..k -> DOMAIN t] : \A a, b \in 1..k : a # b => g[a] # g[b]}}

\* Step 10 and the report (lines 158-184): the cleaned table is written; then a
\* sample of SampleSize rows, which raises ValueError on a smaller table; then
\* the report, the first place to read year_filing_for.
SaveCleaned ==
    /\ pc = "save"
    /\ output_file' = <<df_clean>>
    /\ IF Len(df_clean) < SampleSize
       THEN /\ sample_file' = sample_file
            /\ pc' = "failed"
       ELSE /\ \E rows \in Sample(df_clean, SampleSize) : sample_file' = <<rows>>
            /\ pc' = IF Has({"year_filing_for"}) THEN "done" ELSE "failed"
    /\ UNCHANGED <<df_clean, p99, negative_removed, total_impossible, outliers_removed,
                   initial_outlier_count, empty_companies>>
    /\ UNCHANGED <<columns, df_raw, kpiVars, colVars>>

NoKpi ==
    /\ df = <<>>
    /\ df_with_injuries = <<>>
    /\ industry_kpis = <<>>
    /\ size_kpis = <<>>
    /\ yearly_trends = <<>>
    /\ sector_trends = <<>>
    /\ kpi_file = <<>>
    /\ trir_removed = 0

NoColumn == column = <<>> /\ previous = <<>> /\ passes = 0

\* The state of the Cleaner once a table is loaded (lines 4-16).
Loaded(table, cols) ==
    /\ pc = "fix_type"
    /\ columns = cols
    /\ df_raw = table
    /\ df_clean = df_raw
    /\ p99 = <<>>
    /\ negative_removed = 0
    /\ total_impossible = 0
    /\ outliers_removed = 0
    /\ initial_outlier_count = 0
    /\ empty_companies = 0
    /\ output_file = <<>>
    /\ sample_file = <<>>
    /\ NoKpi
    /\ NoColumn

NoClean ==
    /\ df_raw = <<>>
    /\ df_clean = <<>>
    /\ p99 = <<>>
    /\ negative_removed = 0
    /\ total_impossible = 0
    /\ outliers_removed = 0
    /\ initial_outlier_count = 0
    /\ empty_companies = 0
    /\ output_file = <<>>
    /\ sample_file = <<>>

\* Lines 4-16: the raw table is loaded and the administrative columns dropped.
Init == \E rows \in InputTables : Loaded(ReadCsv(rows), raw_columns)

Next ==
    \/ FixEstablishmentType
    \/ RemoveNegatives
    \/ RemoveImpossible
    \/ Winsorize
    \/ CleanText
    \/ HandleMissing
    \/ CleanNaics
    \/ DeriveVariables
    \/ SaveCleaned

Spec == Init /\ [][Next]_vars

-----------------------------------------------------------------------------
(* The clipping step of the Cleaner on one column, run again on its own result *)

MaxPasses == 2

RECURSIVE Pow(_, _)
Pow(b, k) == IF k = 0 THEN 1 ELSE b * Pow(b, k - 1)

\* Whole numbers, held with two decimals for every pass that may interpolate.
ColumnValues == {v * Pow(Scale, MaxPasses) : v \in 0..MaxColVal}

InitColumn ==
    /\ pc = "clip"
    /\ columns = {}
    /\ column \in UNION {[1..n -> ColumnValues] : n \in 0..MaxColLen}
    /\ previous = <<>>
    /\ passes = 0
    /\ NoClean
    /\ NoKpi

\* Lines 86-89 for one column; p99 keeps the threshold of the pass.
WinsorizePass ==
    /\ pc = "clip"
    /\ passes < MaxPasses
    /\ p99' = Quantile99(column)
    /\ previous' = column
    /\ column' = WinsorizeValues(column)
    /\ passes' = passes + 1
    /\ UNCHANGED <<pc, columns, df_raw, df_clean, negative_removed, total_impossible,
                   outliers_removed, initial_outlier_count, empty_companies, output_file,
                   sample_file>>
    /\ UNCHANGED kpiVars

NextColumn == WinsorizePass

SpecColumn == InitColumn /\ [][NextColumn]_vars

-----------------------------------------------------------------------------
(* The KPI stage: scripts/04_kpi_development.py *)

\* Every KPI is a ratio of two cells of a row, so the unit the cells are held
\* in does not matter; the rows below hold whole numbers.
KpiRow(h, e, i, d1) ==
    [total_hours_worked       |-> h,
     annual_average_employees |-> e,
     total_injuries           |-> i,
     total_dafw_cases         |-> d1,
     total_djtr_cases         |-> 0,
     total_dafw_days          |-> 0,
     total_djtr_days          |-> 0,
     total_deaths             |-> 0,
     naics_sector_name        |-> "Construction",
     size                     |-> 2,
     year_filing_for          |-> 2021]

\* The rows ita_osha_enhanced.csv is drawn from: the worked example, zero
\* denominators, TRIR at and around 50, rows whose sector mean puts the risk
\* score at and around each cut, and rows of another sector, size and year.
KpiInputRows ==
    {KpiRow(80000, 40, 4, 2),
     KpiRow(0, 0, 0, 0), KpiRow(0, 5, 1, 1), KpiRow(2000, 0, 0, 0),
     KpiRow(4000, 2, 1, 0), KpiRow(2000, 1, 1, 0), KpiRow(200000, 100, 51, 0),
     KpiRow(40000, 20, 1, 0), KpiRow(10000000, 5000, 251, 0),
     KpiRow(16000, 8, 1, 0), KpiRow(5000000, 2500, 313, 0),
     KpiRow(50000000, 25000, 1, 0)}
    \cup {[KpiRow(40000, 20, 2, 1) EXCEPT !.total_djtr_cases = 1,
                                          !.total_dafw_days = 3,
                                          !.total_djtr_days = 2]}
    \cup {[KpiRow(200000, 100, 1, 0) EXCEPT !.total_deaths = 1]}
    \cup {[KpiRow(200000, 100, 3, 0) EXCEPT !.naics_sector_name = "Utilities",
                                           !.size = 1,
                                           !.year_filing_for = 2022]}
    \cup {[KpiRow(40000, 20, 3, 1) EXCEPT !.size = 3, !.year_filing_for = 2022]}
    \cup {[KpiRow(2000000, 1000, i, 0) EXCEPT !.year_filing_for = 2022] : i \in {9, 11}}

KpiInputTables == UNION {[1..n -> KpiInputRows] : n \in 0..MaxKpiRows}

\* The columns of ita_osha_enhanced.csv: those of the cleaned table.
enhanced_columns ==
    raw_columns \cup {"naics_sector", "injury_rate_per_100_employees", "trir",
                      "naics_sector_name"}

\* The input columns of lines 25-53.
kpi_inputs ==
    {"total_hours_worked", "total_injuries", "total_dafw_cases", "total_djtr_cases",
     "total_dafw_days", "total_djtr_days", "total_deaths", "annual_average_employees"}

\* Lines 25-53: the five KPI columns, each a guarded division.
KpiColumns(r) ==
    [k \in DOMAIN r \cup {"trir", "ltifr", "dart_rate", "severity_rate", "fatality_rate"} |->
        CASE k = "trir" ->
               GuardedRate(r.total_injuries, r.total_hours_worked, 200000)
          [] k = "ltifr" ->
               GuardedRate(r.total_dafw_cases, r.total_hours_worked, 1000000)
          [] k = "dart_rate" ->
               GuardedRate(r.total_dafw_cases + r.total_djtr_cases,
                           r.total_hours_worked, 200000)
          [] k = "severity_rate" ->
               GuardedRate(r.total_dafw_days + r.total_djtr_days, r.total_injuries, 1)
          [] k = "fatality_rate" ->
               GuardedRate(r.total_deaths, r.annual_average_employees, 100000)
          [] OTHER -> r[k]]

CalculateKPIs ==
    /\ pc = "kpi_calculate"
    /\ IF Has(kpi_inputs)
       THEN /\ df' = [i \in DOMAIN df |-> KpiColumns(df[i])]
            /\ pc' = "kpi_filter"
            /\ UNCHANGED <<df_with_injuries, industry_kpis, size_kpis, yearly_trends, sector_trends, kpi_file,
                           trir_removed>>
            /\ UNCHANGED <<columns, cleanVars, colVars>>
       ELSE KeyError("kpi_failed")

MaxTrir == 50

\* The cutoff written as 100.
TrirBelow100(r) == RatLeq(r.trir, [n |-> 100, d |-> 1])

\* Line 59: df['trir'] <= 50
TrirRealistic(r) == RatLeq(r.trir, [n |-> MaxTrir, d |-> 1])

\* Lines 57-61: df = df[df['trir'] <= 50]
FilterTRIR ==
    /\ pc = "kpi_filter"
    /\ df' = SelectSeq(df, TrirRealistic)
    /\ trir_removed' = Len(df) - Len(df')
    /\ pc' = "kpi_industry"
    /\ UNCHANGED <<df_with_injuries, industry_kpis, size_kpis, yearly_trends, sector_trends, kpi_file>>
    /\ UNCHANGED <<columns, cleanVars, colVars>>

RECURSIVE SumSeq(_)
SumSeq(s) == IF s = <<>> THEN 0 ELSE Head(s) + SumSeq(Tail(s))

RECURSIVE RatSum(_)
RatSum(s) == IF s = <<>> THEN Zero ELSE RatAdd(Head(s), RatSum(Tail(s)))

\* The mean of column c over the rows of a non-empty group.
Mean(rows, c) ==
    LET total == RatSum(ColumnOf(rows, c))
    IN  Rat(total.n, total.d * Len(rows))

\* round(2): the nearest whole number of hundredths, a tie going to the even one.
Round2(r) ==
    LET q   == (100 * r.n) \div r.d
        rem == 100 * r.n - q * r.d
    IN  CASE 2 * rem < r.d -> q
          [] 2 * rem > r.d -> q + 1
          [] OTHER         -> IF q % 2 = 0 THEN q ELSE q + 1

\* Lines 85-89: 0.4 * TRIR + 0.3 * DART + 0.3 * fatality rate of the rounded
\* means, rounded again; all in hundredths.
RiskScore(trir_mean, dart_rate_mean, fatality_rate_mean) ==
    Round2(Rat(4 * trir_mean + 3 * dart_rate_mean + 3 * fatality_rate_mean, 1000))

\* Lines 92-96: pd.cut(bins=[0, 2, 5, inf]) with its defaults: the intervals are
\* (0, 2], (2, 5] and (5, inf], and a score in none of them gets NaN.
RiskLevel(score) ==
    CASE 0 < score /\ score <= 200   -> "Low Risk"
      [] 200 < score /\ score <= 500 -> "Medium Risk"
      [] 500 < score                 -> "High Risk"
      [] OTHER                       -> "NaN"

Groups(t, c) == {t[i][c] : i \in DOMAIN t}

GroupRows(t, c, key) == SelectSeq(t, LAMBDA r : r[c] = key)

\* Lines 71-96, one sector group (the median and std columns are left out).
IndustryRecord(rows) ==
    LET tm == Round2(Mean(rows, "trir"))
        dm == Round2(Mean(rows, "dart_rate"))
        fm == Round2(Mean(rows, "fatality_rate"))
        sc == RiskScore(tm, dm, fm)
    IN  [trir_mean          |-> tm,
         trir_count         |-> Len(rows),
         ltifr_mean         |-> Round2(Mean(rows, "ltifr")),
         dart_rate_mean     |-> dm,
         severity_rate_mean |-> Round2(Mean(rows, "severity_rate")),
         fatality_rate_mean |-> fm,
         risk_score         |-> sc,
         risk_level         |-> RiskLevel(sc)]

\* Lines 63-98: the benchmarks of the sectors, over the rows with TRIR > 0.
IndustryBenchmarks ==
    /\ pc = "kpi_industry"
    /\ IF Has({"naics_sector_name", "total_injuries", "annual_average_employees"})
       THEN /\ df_with_injuries' = SelectSeq(df, LAMBDA r : RatLess(Zero, r.trir))
            /\ industry_kpis' =
                 [s \in Groups(df_with_injuries', "naics_sector_name") |->
                    IndustryRecord(GroupRows(df_with_injuries', "naics_sector_name", s))]
            /\ pc' = "kpi_size"
            /\ UNCHANGED <<df, size_kpis, yearly_trends, sector_trends, kpi_file, trir_removed>>
            /\ UNCHANGED <<columns, cleanVars, colVars>>
       ELSE KeyError("kpi_failed")

size_labels == (1 :> "Small (<20)") @@ (2 :> "Medium (20-249)") @@ (3 :> "Large (250+)")

\* Lines 104-110, one size group (medians left out).
SizeRecord(rows) ==
    [trir_mean          |-> Round2(Mean(rows, "trir")),
     ltifr_mean         |-> Round2(Mean(rows, "ltifr")),
     dart_rate_mean     |-> Round2(Mean(rows, "dart_rate")),
     severity_rate_mean |-> Round2(Mean(rows, "severity_rate"))]

\* Lines 100-115: the summary per size; size_labels[idx] raises KeyError for a
\* size that is not a key of size_labels.
SizeAnalysis ==
    /\ pc = "kpi_size"
    /\ IF Has({"size", "injury_rate_per_100_employees"})
       THEN /\ IF Groups(df, "size") \subseteq DOMAIN size_labels
               THEN /\ size_kpis' =
                         [z \in Groups(df, "size") |->
                            [k \in DOMAIN SizeRecord(GroupRows(df, "size", z)) \cup {"size_label"} |->
                                IF k = "size_label" THEN size_labels[z]
                                ELSE SizeRecord(GroupRows(df, "size", z))[k]]]
                    /\ pc' = "kpi_trends"
               ELSE /\ size_kpis' = size_kpis
                    /\ pc' = "kpi_failed"
            /\ UNCHANGED <<df, df_with_injuries, industry_kpis, yearly_trends, sector_trends, kpi_file, trir_removed>>
            /\ UNCHANGED <<columns, cleanVars, colVars>>
       ELSE KeyError("kpi_failed")

\* np.polyfit(x, y, 1)[0] for the points (xs[i], ys[i]), the xs all different.
\* Two points or more: the least-squares slope
\*   (n * sum(u*y) - sum(u) * sum(y)) / (n * sum(u*u) - sum(u)^2),
\* with u = x - xs[1] (the slope does not depend on the origin of x).
\* One point: the fit is rank deficient, polyfit warns and returns the
\* minimum-norm solution of its scaled system, whose slope is y / (2 * x).
PolyfitSlope(xs, ys) ==
    LET n   == Len(xs)
        u   == [i \in 1..n |-> xs[i] - xs[1]]
        su  == SumSeq(u)
        suu == SumSeq([i \in 1..n |-> u[i] * u[i]])
        sy  == RatSum(ys)
        suy == RatSum([i \in 1..n |-> RatTimes(ys[i], u[i])])
        num == RatAdd(RatTimes(suy, n), RatTimes(RatTimes(sy, su), -1))
    IN  IF n = 1 THEN Rat(ys[1].n, 2 * xs[1] * ys[1].d)
        ELSE Rat(num.n, num.d * (n * suu - su * su))

Tenth == [n |-> 1, d |-> 10]

\* The comparison with -0.1 and 0.1 made inclusive.
TrendDirection_Inclusive(slope) ==
    IF RatLeq(Tenth, slope) THEN "Worsening"
    ELSE IF RatLeq(slope, RatTimes(Tenth, -1)) THEN "Improving"
    ELSE "Stable"

\* Lines 131-134: np.where(slope > 0.1, 'Worsening',
\*                         np.where(slope < -0.1, 'Improving', 'Stable'))
TrendDirection(slope) ==
    IF RatLess(Tenth, slope) THEN "Worsening"
    ELSE IF RatLess(slope, RatTimes(Tenth, -1)) THEN "Improving"
    ELSE "Stable"

\* Lines 127-134, one sector: the slope of mean TRIR over the years of the
\* sector, in ascending order of year as groupby leaves them.
SectorTrend(trends, s) ==
    LET years == SortSeq(SetToSeq({g[2] : g \in {h \in DOMAIN trends : h[1] = s}}),
                         LAMBDA a, b : a < b)
        slope == PolyfitSlope(years, [i \in DOMAIN years |-> trends[<<s, years[i]>>].trir])
    IN  [trend_slope |-> slope, trend_direction |-> TrendDirection(slope)]

\* Lines 121-134: mean TRIR and LTIFR per sector and year, then the trend of
\* each sector.  On a table without rows groupby.apply has no group to call
\* the fit on and returns a frame whose shape depends on the pandas version;
\* line 130 names exactly two columns and raises when it has another number of
\* them: both outcomes are kept.
TrendAnalysis ==
    /\ pc = "kpi_trends"
    /\ IF Has({"naics_sector_name", "year_filing_for"})
       THEN /\ yearly_trends' =
                 [g \in {<<df[i].naics_sector_name, df[i].year_filing_for>> : i \in DOMAIN df} |->
                    LET rows == SelectSeq(df, LAMBDA r :
                                    r.naics_sector_name = g[1] /\ r.year_filing_for = g[2])
                    IN  [trir |-> Mean(rows, "trir"), ltifr |-> Mean(rows, "ltifr")]]
            /\ sector_trends' =
                 [s \in {g[1] : g \in DOMAIN yearly_trends'} |->
                    SectorTrend(yearly_trends', s)]
            /\ pc' \in IF df = <<>> THEN {"kpi_save", "kpi_failed"} ELSE {"kpi_save"}
            /\ UNCHANGED <<df, df_with_injuries, industry_kpis, size_kpis, kpi_file, trir_removed>>
            /\ UNCHANGED <<columns, cleanVars, colVars>>
       ELSE KeyError("kpi_failed")

\* Lines 136-312: the dashboards, the benchmark tables and the table with its
\* KPIs are written; no column is read here for the first time.
SaveKpis ==
    /\ pc = "kpi_save"
    /\ kpi_file' = <<df>>
    /\ pc' = "kpi_done"
    /\ UNCHANGED <<df, df_with_injuries, industry_kpis, size_kpis, yearly_trends, sector_trends, trir_removed>>
    /\ UNCHANGED <<columns, cleanVars, colVars>>

\* Line 9: the enhanced table is read.
InitKpi ==
    /\ pc = "kpi_calculate"
    /\ columns = enhanced_columns
    /\ df \in KpiInputTables
    /\ df_with_injuries = <<>>
    /\ industry_kpis = <<>>
    /\ size_kpis = <<>>
    /\ yearly_trends = <<>>
    /\ sector_trends = <<>>
    /\ kpi_file = <<>>
    /\ trir_removed = 0
    /\ NoClean
    /\ NoColumn

NextKpi ==
    \/ CalculateKPIs
    \/ FilterTRIR
    \/ IndustryBenchmarks
    \/ SizeAnalysis
    \/ TrendAnalysis
    \/ SaveKpis

SpecKpi == InitKpi /\ [][NextKpi]_vars

\* A run of either script.
SpecScripts == (Init \/ InitKpi) /\ [][Next \/ NextKpi]_vars

-----------------------------------------------------------------------------
(* The two scripts one after the other *)

\* The columns of ita_osha_enhanced.csv that the KPI stage reads.
kpi_columns ==
    kpi_inputs \cup {"naics_sector_name", "size", "year_filing_for",
                     "injury_rate_per_100_employees"}

\* 04 line 9, read_csv of what 02 line 163 wrote with to_csv(index=False): the
\* index labels are not in the file, numbers and sector names are read back as
\* written.  Only the cells the KPI stage reads are kept.  The file is there
\* from line 163 on, whether or not the Cleaner went on after writing it.
LoadEnhanced ==
    /\ pc \in {"done", "failed"}
    /\ output_file # <<>>
    /\ df' = [i \in DOMAIN output_file[1] |->
                [k \in kpi_columns \cap DOMAIN output_file[1][i] |-> output_file[1][i][k]]]
    /\ columns' = columns \cup (enhanced_columns \ raw_columns)
    /\ pc' = "kpi_calculate"
    /\ UNCHANGED <<df_with_injuries, industry_kpis, size_kpis, yearly_trends, sector_trends,
                   kpi_file, trir_removed>>
    /\ UNCHANGED <<cleanVars, colVars>>

NextPipeline ==
    \/ Next
    \/ LoadEnhanced
    \/ NextKpi

SpecPipeline == Init /\ [][NextPipeline]_vars

-----------------------------------------------------------------------------
(* Either script on a table that lacks one column *)

DropColumn(t, c) == [i \in DOMAIN t |-> [k \in DOMAIN t[i] \ {c} |-> t[i][k]]]

MissingTables == UNION {[1..n -> {GoodRow, Ehi(1, 1500, 0)}] : n \in 0..MaxRows}

InitMissing ==
    \E rows \in MissingTables : \E c \in raw_columns :
        Loaded(DropColumn(ReadCsv(rows), c), raw_columns \ {c})

KpiMissingTables ==
    UNION {[1..n -> {KpiRow(80000, 40, 4, 2), KpiRow(4000, 2, 1, 0)}] : n \in 0..MaxKpiRows}

InitKpiMissing ==
    /\ pc = "kpi_calculate"
    /\ \E t \in KpiMissingTables : \E c \in enhanced_columns :
          /\ columns = enhanced_columns \ {c}
          /\ df = DropColumn(t, c)
    /\ df_with_injuries = <<>>
    /\ industry_kpis = <<>>
    /\ size_kpis = <<>>
    /\ yearly_trends = <<>>
    /\ sector_trends = <<>>
    /\ kpi_file = <<>>
    /\ trir_removed = 0
    /\ NoClean
    /\ NoColumn

SpecMissing == (InitMissing \/ InitKpiMissing) /\ [][Next \/ NextKpi]_vars

-----------------------------------------------------------------------------
(* Properties of the Cleaner *)

Written == output_file # <<>>

\* The rows of the cleaned table, once it is written.
Cleaned == IF Written THEN Range(output_file[1]) ELSE {}

\* Row r of the cleaned table holds, in column c, less than it was loaded with.
Clipped(r, c) == r[c] < df_raw[r.index + 1][c]

C2_NoInjuriesWithLowHours ==
    \A r \in Cleaned :
        ~(r.total_injuries > 0 /\ r.total_hours_worked < 2000 * Scale)

count_fields ==
    {"annual_average_employees", "total_hours_worked", "total_injuries",
     "total_dafw_days", "total_djtr_days", "total_other_cases", "total_deaths",
     "total_dafw_cases", "total_djtr_cases"}

\* C3: after cleaning every count field of every row is >= 0, the employees,
\* deaths, DAFW cases and DJTR cases included.
C3_AllCountsNonNegative ==
    \A r \in Cleaned : \A c \in count_fields : r[c] >= 0

AfterNegatives ==
    pc \in {"impossible", "winsorize", "text", "missing", "naics", "derive", "save",
            "done", "failed"}

no_negative_fields ==
    {"total_hours_worked", "total_other_cases", "total_dafw_days", "total_djtr_days",
     "total_injuries"}

\* C4: from step 3 on, and in the cleaned table as written, each of the five
\* columns of negative_cols is >= 0 in every row: no later step brings a
\* negative value back.
C4_NoNegativeColumns ==
    /\ AfterNegatives =>
         \A r \in Range(df_clean) : \A c \in no_negative_fields : r[c] >= 0
    /\ \A r \in Cleaned : \A c \in no_negative_fields : r[c] >= 0

\* Step 3 removed a row and the table was written with the row it kept.
C4_Witness ==
    /\ negative_removed > 0
    /\ Cleaned # {}

\* C5: the clipping step removes no row and records, per winsorized column, the
\* 99th percentile of the column as the implausibility pass left it; from then
\* on, and in the cleaned table as written, no value of the column exceeds it.
C5_CappedAtP99 ==
    [][/\ pc = "winsorize" =>
            /\ Len(df_clean') = Len(df_clean)
            /\ \A c \in Range(numeric_cols) :
                   p99'[c] = Quantile99(ColumnOf(df_clean, c))
       /\ (pc' \in {"text", "missing", "naics", "derive", "save", "done", "failed"}) =>
            \A c \in Range(numeric_cols) :
                /\ \A r \in Range(df_clean') : r[c] <= p99'[c][1]
                /\ output_file' # <<>> =>
                     \A r \in Range(output_file'[1]) : r[c] <= p99'[c][1]]_vars

\* A written table holding a value that was lowered to its column's threshold.
C5_Witness ==
    \E r \in Cleaned : \E c \in Range(numeric_cols) :
        /\ Clipped(r, c)
        /\ r[c] = p99[c][1]

\* C7: every row of the cleaned table has a sector among the 24 valid codes and
\* a sector name that is the lookup's entry for it; the lookup has an entry for
\* every valid code.
C7_ValidSectorAndName ==
    /\ Cardinality(valid_naics_sectors) = 24
    /\ \A r \in Cleaned :
         /\ r.naics_sector = Prefix2(r.naics_code)
         /\ r.naics_sector \in valid_naics_sectors
         /\ r.naics_sector_name # "NaN"
         /\ \E i \in DOMAIN naics_entries :
                naics_entries[i] = <<r.naics_sector, r.naics_sector_name>>

\* Step 8 dropped a row, and a row of sector 92 was written.
C7_Witness ==
    /\ Written
    /\ \E r \in Cleaned : r.naics_sector = Code("9", "2")
    /\ \E r \in Cleaned : r.naics_sector = Code("2", "3")
    /\ pc = "failed"

AfterImpossible == pc \in {"winsorize", "text", "missing", "naics", "derive", "save"}

\* C14: when every row has been filtered out, the Cleaner still runs to its end
\* without raising and has written the cleaned file and the sample file.
C14_EmptyTableCompletes ==
    (pc \in {"done", "failed"} /\ df_clean = <<>>) =>
        /\ pc = "done"
        /\ output_file # <<>>
        /\ sample_file # <<>>

MatchesSome(r) == \E k \in DOMAIN pattern_names : Pattern(pattern_names[k], r)

\* C15: the implausibility pass keeps exactly the rows that match none of the
\* six predicates, each evaluated on the row as it stood before the pass, in
\* their order: removing the six masks one after another is removing their OR.
C15_RemovesTheUnionOfMasks ==
    [][pc = "impossible" =>
         df_clean' = SelectSeq(df_clean, LAMBDA r : ~MatchesSome(r))]_vars

\* The pass removed a row that matched more than one predicate, or two rows,
\* and kept a row.
C15_Witness ==
    /\ pc = "winsorize"
    /\ total_impossible >= 2
    /\ df_clean # <<>>
    /\ Len(df_clean) < initial_outlier_count

\* C16: the total printed by "Removing N impossible records" is the number of
\* rows the implausibility pass removes, a row counted once.
C16_ReportedEqualsRemoved ==
    pc = "winsorize" => total_impossible = initial_outlier_count - Len(df_clean)

\* C17: the number of dropped rows that step 7 logs is the number of rows the
\* step drops: those missing no_injuries_illnesses and those with an empty
\* company name.
C17_LoggedDropsAreTheDrops ==
    [][(pc = "missing" /\ pc' = "naics") =>
         dropped_logged' = Len(df_clean) - Len(df_clean')]_vars

\* C19: after the implausibility pass every remaining row has employees > 0 and
\* hours >= 1500 * employees > 0; every row of the cleaned table as written has
\* employees > 0 and hours > 0, so its TRIR and its injury rate are the
\* quotients, never the 0 of a zero denominator.
C19_PositiveDenominators ==
    /\ AfterImpossible =>
         \A r \in Range(df_clean) :
            /\ r.annual_average_employees > 0
            /\ r.total_hours_worked >= 1500 * r.annual_average_employees
            /\ r.total_hours_worked > 0
    /\ \A r \in Cleaned :
         /\ r.annual_average_employees > 0
         /\ r.total_hours_worked > 0
         /\ r.trir = RatTimes(Rat(r.total_injuries, r.total_hours_worked), 200000)
         /\ r.injury_rate_per_100_employees =
              RatTimes(Rat(r.total_injuries, r.annual_average_employees), 100)

\* A table loaded with a row without employees was written with another row.
C19_Witness ==
    /\ Cleaned # {}
    /\ \E i \in DOMAIN df_raw : df_raw[i].annual_average_employees <= 0

-----------------------------------------------------------------------------
(* Properties of the clipping step *)

RECURSIVE SeqMax(_)
SeqMax(vals) ==
    IF Len(vals) = 1 THEN vals[1]
    ELSE LET m == SeqMax(Tail(vals)) IN IF Head(vals) > m THEN Head(vals) ELSE m

\* C6, as claimed: a second run of the clipping step (the percentile computed
\* again, the values above it clipped) leaves every value unchanged.
C6_SecondPassChangesNothing ==
    passes >= 2 => column = previous

\* C6, amended: no pass raises a value; clipping again at the threshold of a
\* pass changes nothing; and a further pass that computes the percentile again
\* changes none but the largest values of the column.
C6_SecondPassLowersOnlyTheTop ==
    /\ passes >= 1 =>
         /\ Len(column) = Len(previous)
         /\ \A i \in DOMAIN column : column[i] <= previous[i]
         /\ p99 # <<>> =>
              \A i \in DOMAIN column : ClipUpper(column[i], p99[1]) = column[i]
    /\ passes >= 2 =>
         \A i \in DOMAIN column :
            column[i] < previous[i] => previous[i] = SeqMax(previous)

\* A second pass that lowered a value the first pass had already capped.
C6_Witness ==
    /\ passes = 2
    /\ \E i \in DOMAIN column : column[i] < previous[i]

-----------------------------------------------------------------------------
(* Properties of the KPI stage *)

AfterFilter ==
    pc \in {"kpi_industry", "kpi_size", "kpi_trends", "kpi_save", "kpi_done", "kpi_failed"}

Realistic(r) == r.trir.n <= MaxTrir * r.trir.d

\* C8: the TRIR <= 50 filter comes before every aggregation: from the filter
\* on, every row of df, of the rows the sector benchmarks are computed from and
\* of the saved KPI table has TRIR <= 50, and so has every mean TRIR of the
\* sector benchmarks, the size summary and the yearly trend.
C8_FilterBeforeAggregation ==
    AfterFilter =>
        /\ \A r \in Range(df) : Realistic(r)
        /\ \A r \in Range(df_with_injuries) : r \in Range(df) /\ Realistic(r)
        /\ \A s \in DOMAIN industry_kpis : industry_kpis[s].trir_mean <= MaxTrir * 100
        /\ \A z \in DOMAIN size_kpis : size_kpis[z].trir_mean <= MaxTrir * 100
        /\ \A g \in DOMAIN yearly_trends :
               yearly_trends[g].trir.n <= MaxTrir * yearly_trends[g].trir.d
        /\ kpi_file # <<>> => kpi_file[1] = df

\* The filter removed a row, kept a row with TRIR exactly 50, and the stage ran
\* to its end with a sector benchmark computed.
C8_Witness ==
    /\ pc = "kpi_done"
    /\ trir_removed > 0
    /\ \E r \in Range(kpi_file[1]) : r.trir = [n |-> MaxTrir, d |-> 1]
    /\ DOMAIN industry_kpis # {}

AfterTrends == pc \in {"kpi_save", "kpi_done"}

\* C11: every sector of the table gets a trend direction, and the direction is
\* Worsening exactly when the fitted slope is > 0.1, Improving exactly when it
\* is < -0.1, and Stable otherwise, a slope of exactly 0.1 or -0.1 included.
C11_DirectionFromSlope ==
    /\ AfterTrends => DOMAIN sector_trends = {df[i].naics_sector_name : i \in DOMAIN df}
    /\ \A s \in DOMAIN sector_trends :
         LET slope == sector_trends[s].trend_slope
             dir   == sector_trends[s].trend_direction
         IN  /\ dir \in {"Worsening", "Improving", "Stable"}
             /\ dir = "Worsening" <=> 10 * slope.n > slope.d
             /\ dir = "Improving" <=> 10 * slope.n < -slope.d

\* A sector whose fitted slope is exactly 0.1 has its direction.
C11_Witness ==
    /\ AfterTrends
    /\ \E s \in DOMAIN sector_trends :
          /\ 10 * sector_trends[s].trend_slope.n = sector_trends[s].trend_slope.d
          /\ sector_trends[s].trend_direction = "Stable"

YearsOf(s) == {g[2] : g \in {h \in DOMAIN yearly_trends : h[1] = s}}

\* C12: a sector with data for fewer than two distinct years gets the fallback:
\* slope 0 and direction Stable.
C12_SingleYearFallback ==
    \A s \in DOMAIN sector_trends :
        Cardinality(YearsOf(s)) < 2 =>
            /\ sector_trends[s].trend_slope = Zero
            /\ sector_trends[s].trend_direction = "Stable"

\* The value of num / den * factor, 0 unless den > 0.
Formula(num, den, factor) == IF den > 0 THEN Rat(factor * num, den) ELSE Zero

WorkedExample(r) ==
    /\ r.total_hours_worked = 80000
    /\ r.total_injuries = 4
    /\ r.total_dafw_cases = 2

\* C9: every derived metric of every row is its formula when the denominator
\* is > 0 and exactly 0 otherwise (KPI stage: TRIR, LTIFR, DART, severity and
\* fatality rate; Cleaner: injury rate per 100 employees and TRIR); hours 80000,
\* injuries 4, DAFW cases 2 give TRIR 10 and LTIFR 25.
C9_GuardedFormulas ==
    /\ pc \in {"kpi_filter"} \cup (IF AfterFilter THEN {pc} ELSE {}) =>
         \A r \in Range(df) :
            /\ r.trir = Formula(r.total_injuries, r.total_hours_worked, 200000)
            /\ r.ltifr = Formula(r.total_dafw_cases, r.total_hours_worked, 1000000)
            /\ r.dart_rate = Formula(r.total_dafw_cases + r.total_djtr_cases,
                                     r.total_hours_worked, 200000)
            /\ r.severity_rate = Formula(r.total_dafw_days + r.total_djtr_days,
                                         r.total_injuries, 1)
            /\ r.fatality_rate = Formula(r.total_deaths, r.annual_average_employees,
                                         100000)
            /\ WorkedExample(r) =>
                 r.trir = [n |-> 10, d |-> 1] /\ r.ltifr = [n |-> 25, d |-> 1]
    /\ pc \in {"save", "done", "failed"} =>
         \A r \in Range(df_clean) :
            /\ r.injury_rate_per_100_employees =
                 Formula(r.total_injuries, r.annual_average_employees, 100)
            /\ r.trir = Formula(r.total_injuries, r.total_hours_worked, 200000)

\* The KPI columns are computed for a table that holds the worked example and a
\* row whose hours, employees and injuries are all 0.
C9_Witness ==
    /\ pc = "kpi_filter"
    /\ \E r \in Range(df) : WorkedExample(r)
    /\ \E r \in Range(df) :
         /\ r.total_hours_worked = 0
         /\ r.annual_average_employees = 0
         /\ r.total_injuries = 0

\* The level the classification rule gives a score (in hundredths).
LevelOfRule(score) ==
    IF score <= 200 THEN "Low Risk"
    ELSE IF score <= 500 THEN "Medium Risk"
    ELSE "High Risk"

\* C10: every sector group of the benchmark table has the risk level of its
\* score: Low up to 2, Medium above 2 up to 5, High above 5; none is left
\* without a level.
C10_EveryGroupHasItsLevel ==
    \A s \in DOMAIN industry_kpis :
        industry_kpis[s].risk_level = LevelOfRule(industry_kpis[s].risk_score)

-----------------------------------------------------------------------------
(* Properties of the two scripts together *)

cleaner_reads ==
    {"establishment_type", "total_hours_worked", "total_other_cases", "total_dafw_days",
     "total_djtr_days", "total_injuries", "annual_average_employees", "company_name",
     "establishment_name", "street_address", "city", "state", "no_injuries_illnesses",
     "naics_code", "year_filing_for"}

kpi_reads ==
    {"total_hours_worked", "total_injuries", "total_dafw_cases", "total_djtr_cases",
     "total_dafw_days", "total_djtr_days", "total_deaths", "annual_average_employees",
     "naics_sector_name", "size", "injury_rate_per_100_employees", "year_filing_for"}

\* The running script is the Cleaner.
RunsCleaner ==
    pc \in {"fix_type", "negatives", "impossible", "winsorize", "text", "missing", "naics",
            "derive", "save", "done", "failed"}

\* C13: a stage whose input lacks a column it reads writes no file: the Cleaner
\* neither the cleaned table nor the sample, the KPI stage no KPI table.
C13_NoFileWithoutItsColumns ==
    /\ (RunsCleaner /\ ~(cleaner_reads \subseteq columns)) =>
         output_file = <<>> /\ sample_file = <<>>
    /\ (~RunsCleaner /\ ~(kpi_reads \subseteq columns)) => kpi_file = <<>>

bucket_labels == {"Small (<20)", "Medium (20-249)", "Large (250+)"}

\* C18: on every table the Cleaner writes, the size analysis of the KPI stage
\* completes, and every size group has one of the three bucket labels.
C18_SizeAnalysisCompletes ==
    [][pc = "kpi_size" =>
         /\ pc' = "kpi_trends"
         /\ DOMAIN size_kpis' = {df[i].size : i \in DOMAIN df}
         /\ \A z \in DOMAIN size_kpis' : size_kpis'[z].size_label \in bucket_labels]_vars

====
